---------------------------- MODULE Spec2Model ----------------------------
(***************************************************************************)
(* Model of scripts/transcribe.py: the AudioTranscriber pipeline           *)
(* (argument check, classification, ffmpeg conversion, payload building,   *)
(* one HTTP POST, status protocol, temp-file cleanup) and the two result   *)
(* accessors get_text / get_duration.                                      *)
(*                                                                         *)
(* One AudioTranscriber object lives at a time.  pc is the position of     *)
(* the running transcribe call; "idle" and "done" are the positions        *)
(* between calls, "finalized" is the position after __del__ has run.       *)
(* The disk, ffmpeg and the HTTP service are the environment: what they    *)
(* answer is chosen nondeterministically at the step that asks them.       *)
(* unlink() is modelled as succeeding.                                     *)
(***************************************************************************)
EXTENDS Integers, Sequences, FiniteSets, TLC

(* ------------------------------ bounds -------------------------------- *)
\* number of distinct names uuid4().hex[:8] can yield in the model
NumTempNames == 2
\* a call that may convert is only started while fewer paths are tracked
MaxTracked == 1

(* ------------------------- program constants -------------------------- *)
MAX_FILE_SIZE == 104857600
STATUS_SUCCESS == "20000000"
STATUS_SILENT == "20000003"
AUDIO_EXTENSIONS == {".mp3", ".wav", ".ogg", ".m4a", ".flac", ".aac"}
VIDEO_EXTENSIONS == {".mp4", ".mkv", ".avi", ".mov", ".wmv", ".flv", ".webm", ".ts", ".m4v"}
output_format == "mp3"

(* ------------------------------ values -------------------------------- *)
None == [none |-> TRUE]
EmptyStr == [str |-> ""]
\* Python truthiness of an Optional[str] / Optional[Path] argument
Truthy(v) == v # None /\ v # EmptyStr

NoFile == -1

\* files of the caller; the temp directory is a directory like any other,
\* so earlier converted files can be handed in as input
TalkVideo == [dir |-> "home", stem |-> <<"talk", 0>>, suffix |-> ".MP4"]
EdgeAudio == [dir |-> "home", stem |-> <<"edge", 0>>, suffix |-> ".mp3"]
HugeAudio == [dir |-> "home", stem |-> <<"huge", 0>>, suffix |-> ".wav"]
HugeOther == [dir |-> "home", stem |-> <<"dump", 0>>, suffix |-> ".xyz"]
GoneAudio == [dir |-> "home", stem |-> <<"gone", 0>>, suffix |-> ".flac"]
UserPaths == {TalkVideo, EdgeAudio, HugeAudio, HugeOther, GoneAudio}

\* Path(tempfile.gettempdir()) / f"audio_{uuid.uuid4().hex[:8]}.{output_format}"
TempPath(i) == [dir |-> "tmp", stem |-> <<"audio", i>>, suffix |-> "." \o output_format]
TempPaths == {TempPath(i) : i \in 1..NumTempNames}
AllPaths == UserPaths \cup TempPaths

InitDisk ==
  [p \in AllPaths |->
     CASE p = TalkVideo -> MAX_FILE_SIZE + 1
       [] p = EdgeAudio -> MAX_FILE_SIZE
       [] p = HugeAudio -> MAX_FILE_SIZE + 1
       [] p = HugeOther -> MAX_FILE_SIZE + 1
       [] OTHER -> NoFile]

ConvertedSizes == {1, MAX_FILE_SIZE + 1}

(* --------------------------- MediaClassifier -------------------------- *)
\* str.lower() on the suffixes that occur
Lower(s) == IF s = ".MP4" THEN ".mp4" ELSE s

get_file_type(p) ==
  LET ext == Lower(p.suffix) IN
  IF ext \in AUDIO_EXTENSIONS THEN "audio"
  ELSE IF ext \in VIDEO_EXTENSIONS THEN "video"
  ELSE "unknown"

(* ------------------------------- JSON --------------------------------- *)
JNull == [kind |-> "null"]
JStr(s) == [kind |-> "str", s |-> s]
JNum(n) == [kind |-> "num", n |-> n]
JDict(f) == [kind |-> "dict", d |-> f]
EmptyMap == [k \in {} |-> JNull]
IsDict(j) == j.kind = "dict"
\* dict.get(key, default)
DictGet(j, key, default) == IF key \in DOMAIN j.d THEN j.d[key] ELSE default

BodyFull == JDict([result |-> JDict([text |-> JStr("hello")]),
                   audio_info |-> JDict([duration |-> JNum(1500)])])
BodyEmpty == JDict(EmptyMap)
BodyNoText == JDict([result |-> JDict(EmptyMap), audio_info |-> JDict(EmptyMap)])
BodyNullResult == JDict([result |-> JNull])
JsonBodies == {BodyFull, BodyEmpty, BodyNoText, BodyNullResult}
\* a response body: the text parses as JSON or it does not
Bodies == {[parses |-> TRUE, value |-> b] : b \in JsonBodies}
            \cup {[parses |-> FALSE, value |-> JNull]}

(* --------------------------- ResultAccessor --------------------------- *)
Got(v) == [raised |-> FALSE, value |-> v]
AttributeError == [raised |-> TRUE, value |-> JNull]
TypeError == [raised |-> TRUE, value |-> JNull]

get_text(result) ==
  IF ~IsDict(result) THEN AttributeError
  ELSE LET r == DictGet(result, "result", JDict(EmptyMap)) IN
       IF ~IsDict(r) THEN AttributeError
       ELSE Got(DictGet(r, "text", JStr("")))

\* seconds = ms / 1000, kept as whole seconds and thousandths
get_duration(result) ==
  IF ~IsDict(result) THEN AttributeError
  ELSE LET a == DictGet(result, "audio_info", JDict(EmptyMap)) IN
       IF ~IsDict(a) THEN AttributeError
       ELSE LET ms == DictGet(a, "duration", JNum(0)) IN
            IF ms.kind # "num" THEN TypeError
            ELSE Got([kind |-> "float", whole |-> ms.n \div 1000, milli |-> ms.n % 1000])

(* ----------------------------- outcomes ------------------------------- *)
NoOutcome == [kind |-> "none", exc |-> "", value |-> JNull, code |-> "", message |-> ""]
Returned(v) == [kind |-> "returned", exc |-> "", value |-> v, code |-> "", message |-> ""]
Raised(e, m) == [kind |-> "raised", exc |-> e, value |-> JNull, code |-> "", message |-> m]
\* TranscriptionError.__init__(code, message)
TranscriptionError(code, message) ==
  [kind |-> "raised", exc |-> "TranscriptionError", value |-> JNull,
   code |-> code, message |-> message]

(* ------------------------- TranscriptionClient ------------------------ *)
HeaderNames == {"X-Api-Status-Code", "X-Api-Message"}
HeaderValue(n) ==
  IF n = "X-Api-Status-Code" THEN {STATUS_SUCCESS, STATUS_SILENT, "45000001"}
  ELSE {"bad request"}
Headers ==
  UNION {{h \in [S -> {STATUS_SUCCESS, STATUS_SILENT, "45000001", "bad request"}] :
             \A n \in S : h[n] \in HeaderValue(n)} : S \in SUBSET HeaderNames}
\* the responses the service is drawn to give: a success or silent status with
\* any body and no message header, any other status with an unparseable body
Responses ==
  {r \in [headers : Headers, body : Bodies] :
     IF "X-Api-Status-Code" \in DOMAIN r.headers
           /\ r.headers["X-Api-Status-Code"] \in {STATUS_SUCCESS, STATUS_SILENT}
     THEN "X-Api-Message" \notin DOMAIN r.headers
     ELSE ~r.body.parses}
NoResponse == [headers |-> None, body |-> None]
\* response.headers.get(name, default)
HeaderGet(h, name, default) == IF name \in DOMAIN h THEN h[name] ELSE default

\* response.json()
ResponseJson(r) ==
  IF r.body.parses THEN Returned(r.body.value) ELSE Raised("JSONDecodeError", "")

\* _call_api after requests.post has returned response r
ApiOutcome_GenericMessage(r) ==
  LET status_code == HeaderGet(r.headers, "X-Api-Status-Code", "")
  IN IF status_code = STATUS_SUCCESS THEN ResponseJson(r)
     ELSE IF status_code = STATUS_SILENT THEN ResponseJson(r)
     ELSE TranscriptionError(status_code, "Unknown error")
ApiOutcome(r) ==
  LET status_code == HeaderGet(r.headers, "X-Api-Status-Code", "")
      message == HeaderGet(r.headers, "X-Api-Message", "Unknown error")
  IN IF status_code = STATUS_SUCCESS THEN ResponseJson(r)
     ELSE IF status_code = STATUS_SILENT THEN ResponseJson(r)
     ELSE TranscriptionError(status_code, message)

(* ------------------------------- state -------------------------------- *)
VARIABLES
  pc,           \* position of the transcribe call
  url, file, keep_temp,   \* arguments of the current (or last) call
  path,         \* _transcribe_file: local path
  file_type,    \* _transcribe_file: local file_type ("" before it is set)
  file_size,    \* _transcribe_file: local file_size (NoFile before it is set)
  output_path,  \* extract_audio_from_video: local output_path
  tool,         \* result of check_ffmpeg in this call
  proc,         \* what the ffmpeg process of this call did
  temp_files,   \* self._temp_files
  disk,         \* path -> size, NoFile when the path does not exist
  outcome,      \* what the call hands to its caller
  resp,         \* the HTTP response of this call
  httpCalls, ffmpegRuns,  \* requests.post / subprocess.run calls of this call
  payloadBuilt, \* the request body exists
  fsAccessed,   \* the call has touched the filesystem
  entry,        \* temp_files and disk when the call was entered
  kept,         \* converted files on disk whose retention was requested
  deleted       \* the latest cleanup: who ran it, the paths it unlinked, and
                \* those among them whose retention had been requested

vars == <<pc, url, file, keep_temp, path, file_type, file_size, output_path, tool,
          proc, temp_files, disk, outcome, resp, httpCalls, ffmpegRuns,
          payloadBuilt, fsAccessed, entry, kept, deleted>>

NoProc == [status |-> "none", wrote |-> FALSE, present |-> FALSE, size |-> NoFile]
NoDeleted == [by |-> "none", paths |-> {}, retained |-> {}]

Range(s) == {s[i] : i \in 1..Len(s)}

UrlArgs == {None, [str |-> "https://example.com/audio.mp3"]}
FileArgs == {None, EmptyStr} \cup AllPaths

\* locals and counters of a call before its first statement
FreshCall ==
  /\ path' = None /\ file_type' = "" /\ file_size' = NoFile
  /\ output_path' = None /\ tool' = "unchecked" /\ proc' = NoProc
  /\ resp' = NoResponse /\ httpCalls' = 0 /\ ffmpegRuns' = 0
  /\ payloadBuilt' = FALSE /\ fsAccessed' = FALSE

Init ==
  /\ pc = "idle"
  /\ url = None /\ file = None /\ keep_temp = FALSE
  /\ path = None /\ file_type = "" /\ file_size = NoFile
  /\ output_path = None /\ tool = "unchecked" /\ proc = NoProc
  /\ temp_files = <<>>
  /\ disk = InitDisk
  /\ outcome = NoOutcome
  /\ resp = NoResponse /\ httpCalls = 0 /\ ffmpegRuns = 0
  /\ payloadBuilt = FALSE /\ fsAccessed = FALSE
  /\ entry = [temp_files |-> <<>>, disk |-> InitDisk]
  /\ kept = {}
  /\ deleted = NoDeleted

(* --------------------------- AudioTranscriber ------------------------- *)
\* _cleanup_temp_files: the disk after unlinking every tracked path
CleanedDisk(d, tf) == [p \in AllPaths |-> IF p \in Range(tf) THEN NoFile ELSE d[p]]
Unlinked(d, tf) == {p \in Range(tf) : d[p] # NoFile}

\* where transcribe goes when an argument check raises: the checks stand
\* before the try statement, so the finally block is not run
AfterArgumentError_InsideTry == "finally"
AfterArgumentError == "done"

\* transcribe: entry and the two argument checks
Transcribe ==
  /\ pc \in {"idle", "done"}
  /\ \E u \in UrlArgs, f \in FileArgs, k \in BOOLEAN :
       /\ (Truthy(f) /\ get_file_type(f) = "video") => Len(temp_files) < MaxTracked
       /\ url' = u /\ file' = f /\ keep_temp' = k
       /\ FreshCall
       /\ entry' = [temp_files |-> temp_files, disk |-> disk]
       /\ deleted' = NoDeleted
       /\ IF ~Truthy(u) /\ ~Truthy(f)
          THEN /\ outcome' = Raised("ValueError", "Either 'url' or 'file' must be provided")
               /\ pc' = AfterArgumentError
          ELSE IF Truthy(u) /\ Truthy(f)
          THEN /\ outcome' = Raised("ValueError", "Provide either 'url' or 'file', not both")
               /\ pc' = AfterArgumentError
          ELSE /\ outcome' = NoOutcome
               /\ pc' = IF Truthy(f) THEN "transcribe_file" ELSE "transcribe_url"
  /\ UNCHANGED <<temp_files, disk, kept>>

\* _transcribe_url: build the body
TranscribeUrl ==
  /\ pc = "transcribe_url"
  /\ payloadBuilt' = TRUE
  /\ pc' = "call_api"
  /\ UNCHANGED <<url, file, keep_temp, path, file_type, file_size, output_path, tool,
                 proc, temp_files, disk, outcome, resp, httpCalls, ffmpegRuns,
                 fsAccessed, entry, kept, deleted>>

\* _transcribe_file: existence check and classification
TranscribeFile ==
  /\ pc = "transcribe_file"
  /\ path' = file
  /\ fsAccessed' = TRUE
  /\ IF disk[file] = NoFile
     THEN /\ outcome' = Raised("FileNotFoundError", "File not found")
          /\ pc' = "finally"
          /\ UNCHANGED file_type
     ELSE /\ file_type' = get_file_type(file)
          /\ pc' = IF get_file_type(file) = "video" THEN "extract" ELSE "payload"
          /\ UNCHANGED outcome
  /\ UNCHANGED <<url, file, keep_temp, file_size, output_path, tool, proc, temp_files,
                 disk, resp, httpCalls, ffmpegRuns, payloadBuilt, entry, kept, deleted>>

\* extract_audio_from_video: check_ffmpeg, then the default output path
ExtractCheck ==
  /\ pc = "extract"
  /\ \E found \in BOOLEAN :
       IF ~found
       THEN /\ tool' = "missing"
            /\ outcome' = Raised("FFmpegNotFoundError", "FFmpeg is required for video processing")
            /\ pc' = "finally"
            /\ UNCHANGED output_path
       ELSE /\ tool' = "found"
            /\ \E i \in 1..NumTempNames : output_path' = TempPath(i)
            /\ pc' = "ffmpeg"
            /\ UNCHANGED outcome
  /\ UNCHANGED <<url, file, keep_temp, path, file_type, file_size, proc, temp_files,
                 disk, resp, httpCalls, ffmpegRuns, payloadBuilt, fsAccessed, entry,
                 kept, deleted>>

\* extract_audio_from_video after subprocess.run: st is how the process ended,
\* exists is output_path.exists(); NoOutcome stands for "return output_path"
ExtractResult_NoExistsCheck(st, exists) ==
  IF st = "timeout"
  THEN Raised("RuntimeError", "FFmpeg timeout: video file may be too large")
  ELSE IF st # "exit0" THEN Raised("RuntimeError", "FFmpeg error")
  ELSE NoOutcome
ExtractResult(st, exists) ==
  IF st = "timeout"
  THEN Raised("RuntimeError", "FFmpeg timeout: video file may be too large")
  ELSE IF st # "exit0" THEN Raised("RuntimeError", "FFmpeg error")
  ELSE IF ~exists
  THEN Raised("RuntimeError", "Audio extraction failed: output file not created")
  ELSE NoOutcome

\* extract_audio_from_video: subprocess.run and what follows it, and on
\* return the two statements of _transcribe_file that track the new path
RunFfmpeg ==
  /\ pc = "ffmpeg"
  /\ \E st \in {"exit0", "exit1", "timeout"}, wrote \in BOOLEAN, sz \in ConvertedSizes :
       LET d == IF wrote THEN [disk EXCEPT ![output_path] = sz] ELSE disk
           exists == d[output_path] # NoFile
           res == ExtractResult(st, exists)
       IN /\ ffmpegRuns' = ffmpegRuns + 1
          /\ disk' = d
          /\ proc' = [status |-> st, wrote |-> wrote, present |-> exists,
                      size |-> d[output_path]]
          /\ IF res.kind = "raised"
             THEN /\ outcome' = res
                  /\ pc' = "finally"
                  /\ UNCHANGED <<temp_files, path>>
             ELSE /\ temp_files' = Append(temp_files, output_path)
                  /\ path' = output_path
                  /\ pc' = "payload"
                  /\ UNCHANGED outcome
  /\ UNCHANGED <<url, file, keep_temp, file_type, file_size, output_path, tool, resp,
                 httpCalls, payloadBuilt, fsAccessed, entry, kept, deleted>>

\* _transcribe_file: file_size > MAX_FILE_SIZE
TooLarge_NoCap(size) == FALSE
TooLarge(size) == size > MAX_FILE_SIZE

\* _transcribe_file: size check, read and encode, build the body
BuildPayload ==
  /\ pc = "payload"
  /\ file_size' = disk[path]
  /\ IF TooLarge(disk[path])
     THEN /\ outcome' = Raised("ValueError", "File too large")
          /\ pc' = "finally"
          /\ UNCHANGED payloadBuilt
     ELSE /\ payloadBuilt' = TRUE
          /\ pc' = "call_api"
          /\ UNCHANGED outcome
  /\ UNCHANGED <<url, file, keep_temp, path, file_type, output_path, tool, proc,
                 temp_files, disk, resp, httpCalls, ffmpegRuns, fsAccessed, entry,
                 kept, deleted>>

\* where _call_api goes when requests.post raises: the exception leaves
\* _call_api and transcribe's try block, nothing catches it to post again
AfterTransportError_Retry == "call_api"
AfterTransportError == "finally"

\* _call_api: one requests.post, then the status protocol
CallApi ==
  /\ pc = "call_api"
  /\ httpCalls' = httpCalls + 1
  /\ \/ \E e \in {"Timeout", "ConnectionError"} :
          /\ outcome' = Raised(e, "")
          /\ pc' = AfterTransportError
          /\ UNCHANGED resp
     \/ \E r \in Responses :
          /\ resp' = r
          /\ outcome' = ApiOutcome(r)
          /\ pc' = "finally"
  /\ UNCHANGED <<url, file, keep_temp, path, file_type, file_size, output_path, tool,
                 proc, temp_files, disk, ffmpegRuns, payloadBuilt, fsAccessed, entry,
                 kept, deleted>>

\* transcribe: the finally block
Finally ==
  /\ pc = "finally"
  /\ IF ~keep_temp
     THEN /\ disk' = CleanedDisk(disk, temp_files)
          /\ deleted' = [by |-> "transcribe", paths |-> Unlinked(disk, temp_files),
                          retained |-> Unlinked(disk, temp_files) \cap kept]
          /\ temp_files' = <<>>
          /\ kept' = kept \ Unlinked(disk, temp_files)
     ELSE /\ kept' = IF proc.wrote /\ disk[output_path] # NoFile
                     THEN kept \cup {output_path} ELSE kept
          /\ UNCHANGED <<disk, deleted, temp_files>>
  /\ pc' = "done"
  /\ UNCHANGED <<url, file, keep_temp, path, file_type, file_size, output_path, tool,
                 proc, outcome, resp, httpCalls, ffmpegRuns, payloadBuilt, fsAccessed,
                 entry>>

\* __del__
Finalize ==
  /\ pc \in {"idle", "done"}
  /\ disk' = CleanedDisk(disk, temp_files)
  /\ deleted' = [by |-> "__del__", paths |-> Unlinked(disk, temp_files),
                  retained |-> Unlinked(disk, temp_files) \cap kept]
  /\ temp_files' = <<>>
  /\ kept' = kept \ Unlinked(disk, temp_files)
  /\ pc' = "finalized"
  /\ UNCHANGED <<url, file, keep_temp, path, file_type, file_size, output_path, tool,
                 proc, outcome, resp, httpCalls, ffmpegRuns, payloadBuilt, fsAccessed,
                 entry>>

\* __init__ of the next transcriber
Construct ==
  /\ pc = "finalized"
  /\ pc' = "idle"
  /\ temp_files' = <<>>
  /\ url' = None /\ file' = None /\ keep_temp' = FALSE
  /\ FreshCall
  /\ outcome' = NoOutcome
  /\ entry' = [temp_files |-> <<>>, disk |-> disk]
  /\ deleted' = NoDeleted
  /\ UNCHANGED <<disk, kept>>

Next ==
  \/ Transcribe
  \/ TranscribeUrl
  \/ TranscribeFile
  \/ ExtractCheck
  \/ RunFfmpeg
  \/ BuildPayload
  \/ CallApi
  \/ Finally
  \/ Finalize
  \/ Construct

Spec == Init /\ [][Next]_vars

TypeOK ==
  /\ pc \in {"idle", "transcribe_url", "transcribe_file", "extract", "ffmpeg",
             "payload", "call_api", "finally", "done", "finalized"}
  /\ Range(temp_files) \subseteq TempPaths
  /\ Len(temp_files) <= MaxTracked

(* ------------------------- claims: vocabulary ------------------------- *)
ArgsInvalid == (~Truthy(url) /\ ~Truthy(file)) \/ (Truthy(url) /\ Truthy(file))
FileCall == ~Truthy(url) /\ Truthy(file)
Responded == resp # NoResponse
StatusHeader == HeaderGet(resp.headers, "X-Api-Status-Code", "")
FileTooLarge == Raised("ValueError", "File too large")
Terminal == {"finally", "done", "finalized"}

(* C1: after a transcribe call on a video input with keep_temp=False, the  *)
(* converted-audio file that ffmpeg wrote for this call no longer exists,  *)
(* whatever the exit path.                                                 *)
C1_TempFileGone ==
  (pc = "done" /\ FileCall /\ file_type = "video" /\ ~keep_temp /\ proc.wrote)
    => disk[output_path] = NoFile

(* C2: a call with both url and file, or with neither, raises ValueError   *)
(* before any side effect: no HTTP call, no ffmpeg run, no filesystem      *)
(* access, no payload, and disk and tracked temp files as they were on     *)
(* entry.                                                                  *)
C2_InvalidArguments ==
  (pc = "done" /\ ArgsInvalid)
    => /\ outcome.kind = "raised" /\ outcome.exc = "ValueError"
       /\ httpCalls = 0 /\ ffmpegRuns = 0
       /\ ~fsAccessed /\ ~payloadBuilt
       /\ disk = entry.disk
       /\ temp_files = entry.temp_files
C2_Witness ==
  /\ pc = "done" /\ Truthy(url) /\ Truthy(file) /\ ~keep_temp
  /\ outcome.exc = "ValueError"
  /\ temp_files # <<>>

(* C3 as stated: every existing local input file larger than 100 MiB,      *)
(* video included, ends in TooLarge without an HTTP call (read in its      *)
(* most favourable sense: unless the conversion itself failed first).      *)
C3_AnyLargeInputTooLarge ==
  (pc = "done" /\ FileCall /\ entry.disk[file] > MAX_FILE_SIZE
     /\ outcome.exc \notin {"FFmpegNotFoundError", "RuntimeError"})
    => outcome = FileTooLarge /\ httpCalls = 0
(* C3 amended: the file that is measured is the one that would be          *)
(* uploaded: an audio or unknown-type input itself, and for a video input  *)
(* the converted audio.  When that file is larger than 100 MiB the call    *)
(* ends in TooLarge without an HTTP call.                                  *)
C3_UploadedFileTooLarge ==
  (pc = "done" /\ FileCall)
    => LET uploadedTooLarge ==
             \/ file_type \in {"audio", "unknown"} /\ entry.disk[file] > MAX_FILE_SIZE
             \/ /\ file_type = "video" /\ proc.status = "exit0"
                /\ proc.size > MAX_FILE_SIZE
       IN uploadedTooLarge => outcome = FileTooLarge /\ httpCalls = 0 /\ ~payloadBuilt
C3_Witness ==
  /\ pc = "done" /\ FileCall /\ file_type = "video"
  /\ proc.status = "exit0" /\ proc.size > MAX_FILE_SIZE
  /\ outcome = FileTooLarge

(* C4 as stated: for a response whose status header is neither success     *)
(* nor silent the call raises TranscriptionError whose code and message    *)
(* are the ones the response headers carry.                                *)
C4_HeadersVerbatim ==
  (pc \in Terminal /\ Responded /\ "X-Api-Status-Code" \in DOMAIN resp.headers
     /\ StatusHeader \notin {STATUS_SUCCESS, STATUS_SILENT})
    => /\ outcome.kind = "raised" /\ outcome.exc = "TranscriptionError"
       /\ outcome.code = resp.headers["X-Api-Status-Code"]
       /\ "X-Api-Message" \in DOMAIN resp.headers
       /\ outcome.message = resp.headers["X-Api-Message"]
(* C4 amended: for a response whose status header is absent or neither     *)
(* success nor silent the call raises TranscriptionError and returns no    *)
(* result; the code is the status header verbatim ("" when absent), the    *)
(* message is the message header verbatim when present and the fixed text  *)
(* "Unknown error" when the response carries no message header.            *)
C4_HeadersVerbatimOrDefault ==
  (pc \in Terminal /\ Responded /\ StatusHeader \notin {STATUS_SUCCESS, STATUS_SILENT})
    => /\ outcome.kind = "raised" /\ outcome.exc = "TranscriptionError"
       /\ outcome.value = JNull
       /\ outcome.code = (IF "X-Api-Status-Code" \in DOMAIN resp.headers
                          THEN resp.headers["X-Api-Status-Code"] ELSE "")
       /\ outcome.message = (IF "X-Api-Message" \in DOMAIN resp.headers
                             THEN resp.headers["X-Api-Message"] ELSE "Unknown error")
C4_Witness ==
  /\ pc = "done" /\ Responded
  /\ outcome.exc = "TranscriptionError"
  /\ outcome.code = "45000001" /\ outcome.message = "bad request"

(* C5: a silent response with a JSON body is returned, not raised, and     *)
(* what the caller receives differs from what it receives for the same     *)
(* response under the success status.                                      *)
C5_SilentDistinguishable ==
  (pc = "done" /\ Responded /\ StatusHeader = STATUS_SILENT /\ resp.body.parses)
    => /\ outcome.kind = "returned"
       /\ outcome # ApiOutcome([resp EXCEPT !.headers["X-Api-Status-Code"] = STATUS_SUCCESS])

(* C6: per call there is at most one HTTP POST and at most one ffmpeg      *)
(* run; the POST happens only after the payload exists and exactly once    *)
(* when it exists; ffmpeg runs only for a file input classified as video;  *)
(* a raised error is terminal: the call is in its finally block or over,   *)
(* and an error of conversion or payload building leaves no HTTP call.     *)
C6_OneCallNoRetry ==
  /\ httpCalls <= 1 /\ ffmpegRuns <= 1
  /\ httpCalls = 1 => payloadBuilt
  /\ (payloadBuilt /\ pc \in Terminal) => httpCalls = 1
  /\ ffmpegRuns = 1 => FileCall /\ file_type = "video"
  /\ outcome.kind = "raised" => pc \in Terminal
  /\ outcome.exc \in {"RuntimeError", "FFmpegNotFoundError", "FileNotFoundError"}
       => httpCalls = 0 /\ ~payloadBuilt
  /\ outcome = FileTooLarge => httpCalls = 0 /\ ~payloadBuilt
  /\ outcome.exc \in {"Timeout", "ConnectionError", "TranscriptionError", "JSONDecodeError"}
       => httpCalls = 1
C6_Witness ==
  /\ pc = "done" /\ httpCalls = 1 /\ ffmpegRuns = 1
  /\ outcome.exc = "Timeout"

(* C7: a converted file whose retention was requested is never unlinked    *)
(* by the transcriber, and the cleanup of a transcribe call unlinks only   *)
(* files this call created.                                                *)
C7_RetainedNeverDeleted ==
  /\ deleted.retained = {}
  /\ deleted.by = "transcribe"
       => deleted.paths \subseteq (IF proc.wrote THEN {output_path} ELSE {})

(* C8: ffmpeg is started only after check_ffmpeg found it; when it is not  *)
(* found the call raises FFmpegNotFoundError and no process runs; the      *)
(* conversion returns its output path exactly when the process exited 0    *)
(* in time and the output file exists, and raises RuntimeError otherwise.  *)
C8_ToolCheckedStrictSuccess ==
  /\ tool = "missing"
       => outcome.exc = "FFmpegNotFoundError" /\ ffmpegRuns = 0 /\ proc = NoProc
  /\ ffmpegRuns > 0 => tool = "found" /\ proc # NoProc
  /\ proc # NoProc
       => IF proc.status = "exit0" /\ proc.present
          THEN path = output_path /\ outcome.exc # "RuntimeError"
          ELSE path # output_path /\ outcome.exc = "RuntimeError"
  /\ (pc = "payload" /\ file_type = "video") => disk[path] # NoFile
C8_Witness ==
  /\ pc = "done" /\ tool = "found"
  /\ proc.status = "exit0" /\ ~proc.present
  /\ outcome.exc = "RuntimeError"

(* C9: no transcribe call deletes its input file: an input that existed    *)
(* on entry exists on return, and it is not among the paths the cleanup    *)
(* unlinked.                                                               *)
C9_InputFileSurvives ==
  (pc = "done" /\ FileCall /\ entry.disk[file] # NoFile)
    => disk[file] # NoFile /\ file \notin deleted.paths

(* C10: for a response with the silent status, whatever its body, the      *)
(* call returns and get_text on the returned body does not raise.          *)
C10_SilentTextNeverRaises ==
  (pc = "done" /\ Responded /\ StatusHeader = STATUS_SILENT)
    => outcome.kind = "returned" /\ ~get_text(outcome.value).raised
=============================================================================
